---- MODULE Spec2Model ----
(***************************************************************************)
(* Model of src/compile_time_config.rs: the compile-time server            *)
(* configuration (COMPILE_TIME_CONFIG), the Applier                        *)
(* (init_compile_time_config) and the double-checked-locking gate          *)
(* (ensure_compile_time_config_initialized) around the INITIALIZED flag.   *)
(*                                                                         *)
(* Every thread is a caller of the gate.  One action is one atomic step of *)
(* the code: a lock acquisition, a read of the flag together with the drop *)
(* of the temporary read guard, one config::set call, one insertion into   *)
(* HARD_SETTINGS, the write of APP_NAME, the write of the flag, the drop   *)
(* of the write guard.  pc[t] names the source line thread t is about to   *)
(* execute.                                                                *)
(***************************************************************************)
EXTENDS Integers, Sequences, FiniteSets, TLC

(* ------------------------------ bounds -------------------------------- *)
NumThreads == 3
MaxCalls == 2
MaxDirect == 1

Threads == 1..NumThreads
NoThread == 0

(* ------------------- build-time constants, lines 23-38 ---------------- *)
CUSTOM_RENDEZVOUS_SERVER == "123.56.52.21:21117"
CUSTOM_RELAY_SERVER == "123.56.52.21:21117"
CUSTOM_API_SERVER == "http://123.56.52.21:21114"
CUSTOM_KEY == "I+4iSpQm+RRTCxCTiK2rIbPqNs5fTcEatxI9UBmWuqE="

(* ------------------- keys of the collaborators ------------------------ *)
\* The key constants live in hbb_common::config::keys; the source names them
\* without showing their text.  Only that they are eight different keys
\* matters below.
OPTION_CUSTOM_RENDEZVOUS_SERVER == "custom-rendezvous-server"
OPTION_RELAY_SERVER == "relay-server"
OPTION_API_SERVER == "api-server"
OPTION_KEY == "key"
ALLOW_HIDE_CM == "allow-hide-cm"
OPTION_ALLOW_REMOTE_CONFIG_MODIFICATION == "allow-remote-config-modification"
RELAY_PASS == "relay-pass"
OPTION_PERMISSION == "permission"
APP_NAME_DEFAULT == "RustDesk"
APP_NAME_CUSTOM == "RustDesk Custom"

ServerKeys ==
  {OPTION_CUSTOM_RENDEZVOUS_SERVER, OPTION_RELAY_SERVER, OPTION_API_SERVER, OPTION_KEY}

AuxKeys ==
  {ALLOW_HIDE_CM, OPTION_ALLOW_REMOTE_CONFIG_MODIFICATION, RELAY_PASS, OPTION_PERMISSION}

EmptyMap == [k \in {} |-> ""]

(* The struct CompileTimeConfig.  Each field is either the literal of the  *)
(* source or the empty string the comments of lines 25-33 allow ("optional, *)
(* may be left empty").                                                     *)
CompileTimeConfig ==
  [rendezvous_server : {CUSTOM_RENDEZVOUS_SERVER, ""},
   relay_server : {CUSTOM_RELAY_SERVER, ""},
   api_server : {CUSTOM_API_SERVER, ""},
   key : {CUSTOM_KEY, ""}]

is_empty(s) == s = ""

VARIABLES
  cfg,            \* COMPILE_TIME_CONFIG
  initialized,    \* the bool inside INITIALIZED
  readers,        \* threads holding a read guard of INITIALIZED
  writer,         \* thread holding the write guard of INITIALIZED, or NoThread
  initPoisoned,   \* INITIALIZED is poisoned
  store,          \* ConfigStore: key -> last value passed to config::set
  setLog,         \* the config::set calls made so far, in order
  hard,           \* config::HARD_SETTINGS
  hardHolder,     \* thread holding the HARD_SETTINGS write guard, or NoThread
  hardPoisoned,   \* HARD_SETTINGS is poisoned
  appName,        \* config::APP_NAME
  appHolder,      \* thread holding the APP_NAME write guard, or NoThread
  appPoisoned,    \* APP_NAME is poisoned
  pc,             \* per thread: the line it is about to execute
  returned,       \* per thread: calls of the gate that have returned
  applierStarted, \* history: entries into init_compile_time_config
  applierCompleted, \* history: returns from init_compile_time_config
  flagFlips,      \* history: changes of the value of the flag
  recheckHits,    \* history: second checks (line 143) that found the flag true
  direct,         \* threads inside a direct call of init_compile_time_config()
  directCalls     \* direct calls of init_compile_time_config() made so far

vars ==
  <<cfg, initialized, readers, writer, initPoisoned, store, setLog, hard,
    hardHolder, hardPoisoned, appName, appHolder, appPoisoned, pc, returned,
    applierStarted, applierCompleted, flagFlips, recheckHits, direct,
    directCalls>>

flagVars == <<initialized, readers, writer, initPoisoned, flagFlips>>
storeVars == <<store, setLog>>
hardVars == <<hard, hardHolder, hardPoisoned>>
appVars == <<appName, appHolder, appPoisoned>>
histVars == <<applierStarted, applierCompleted, recheckHits>>
directVars == <<direct, directCalls>>

Init ==
  /\ cfg \in CompileTimeConfig
  /\ initialized = FALSE
  /\ readers = {}
  /\ writer = NoThread
  /\ initPoisoned = FALSE
  /\ store = EmptyMap
  /\ setLog = << >>
  /\ hard = EmptyMap
  /\ hardHolder = NoThread
  /\ hardPoisoned \in BOOLEAN
  /\ appName = APP_NAME_DEFAULT
  /\ appHolder = NoThread
  /\ appPoisoned \in BOOLEAN
  /\ pc = [t \in Threads |-> "idle"]
  /\ returned = [t \in Threads |-> 0]
  /\ applierStarted = 0
  /\ applierCompleted = 0
  /\ flagFlips = 0
  /\ recheckHits = 0
  /\ direct = {}
  /\ directCalls = 0

(* ------------------------- the gate, lines 135-148 -------------------- *)

\* A caller enters ensure_compile_time_config_initialized().
Call(t) ==
  /\ pc[t] = "idle"
  /\ returned[t] < MaxCalls
  /\ pc' = [pc EXCEPT ![t] = "l138"]
  /\ UNCHANGED <<cfg, directVars, flagVars, storeVars, hardVars, appVars, returned, histVars>>

\* AcquireRead that recovers the guard of a poisoned lock instead of
\* unwrapping the error.
AcquireRead_IgnoresPoison(t) ==
  /\ pc[t] = "l138"
  /\ writer = NoThread
  /\ pc' = [pc EXCEPT ![t] = "l138_held"]
  /\ readers' = readers \cup {t}
  /\ UNCHANGED <<cfg, directVars, initialized, writer, initPoisoned, flagFlips,
                 storeVars, hardVars, appVars, returned, histVars>>

\* Line 138, INITIALIZED.read().unwrap(): blocks while a writer holds the
\* lock; on a poisoned lock read() is Err and unwrap() panics, the guard
\* inside the error is dropped.
AcquireRead(t) ==
  /\ pc[t] = "l138"
  /\ writer = NoThread
  /\ IF initPoisoned
       THEN /\ pc' = [pc EXCEPT ![t] = "panicked"]
            /\ UNCHANGED readers
       ELSE /\ pc' = [pc EXCEPT ![t] = "l138_held"]
            /\ readers' = readers \cup {t}
  /\ UNCHANGED <<cfg, directVars, initialized, writer, initPoisoned, flagFlips, storeVars,
                 hardVars, appVars, returned, histVars>>

\* CheckFirst without a fast path: every call goes on to the write lock.
CheckFirst_AlwaysWrite(t) ==
  /\ pc[t] = "l138_held"
  /\ readers' = readers \ {t}
  /\ pc' = [pc EXCEPT ![t] = "l140"]
  /\ UNCHANGED <<cfg, directVars, initialized, writer, initPoisoned, flagFlips,
                 storeVars, hardVars, appVars, returned, histVars>>

\* CheckFirst whose read guard outlives the condition (the scoping of a
\* `match` or `if let` scrutinee): it is still held at line 140.
CheckFirst_KeepsGuard(t) ==
  /\ pc[t] = "l138_held"
  /\ IF initialized
       THEN /\ pc' = [pc EXCEPT ![t] = "idle"]
            /\ returned' = [returned EXCEPT ![t] = @ + 1]
            /\ readers' = readers \ {t}
       ELSE /\ pc' = [pc EXCEPT ![t] = "l140"]
            /\ UNCHANGED <<returned, readers>>
  /\ UNCHANGED <<cfg, directVars, initialized, writer, initPoisoned, flagFlips,
                 storeVars, hardVars, appVars, histVars>>

\* CheckFirst with the condition inverted (`if *guard`): a caller that reads
\* false returns at once.
CheckFirst_Inverted(t) ==
  /\ pc[t] = "l138_held"
  /\ readers' = readers \ {t}
  /\ IF ~initialized
       THEN /\ pc' = [pc EXCEPT ![t] = "idle"]
            /\ returned' = [returned EXCEPT ![t] = @ + 1]
       ELSE /\ pc' = [pc EXCEPT ![t] = "l140"]
            /\ UNCHANGED returned
  /\ UNCHANGED <<cfg, directVars, initialized, writer, initPoisoned, flagFlips, storeVars,
                 hardVars, appVars, histVars>>

\* CheckFirst that takes the flag (reads it and leaves false behind).
CheckFirst_TakesFlag(t) ==
  /\ pc[t] = "l138_held"
  /\ readers' = readers \ {t}
  /\ initialized' = FALSE
  /\ flagFlips' = IF initialized THEN flagFlips + 1 ELSE flagFlips
  /\ IF initialized
       THEN /\ pc' = [pc EXCEPT ![t] = "idle"]
            /\ returned' = [returned EXCEPT ![t] = @ + 1]
       ELSE /\ pc' = [pc EXCEPT ![t] = "l140"]
            /\ UNCHANGED returned
  /\ UNCHANGED <<cfg, directVars, writer, initPoisoned, storeVars, hardVars, appVars, histVars>>

\* Line 138, `if !*guard`: the flag is read and the temporary read guard is
\* dropped at the end of the condition; flag true: the function returns.
CheckFirst(t) ==
  /\ pc[t] = "l138_held"
  /\ readers' = readers \ {t}
  /\ IF initialized
       THEN /\ pc' = [pc EXCEPT ![t] = "idle"]
            /\ returned' = [returned EXCEPT ![t] = @ + 1]
       ELSE /\ pc' = [pc EXCEPT ![t] = "l140"]
            /\ UNCHANGED returned
  /\ UNCHANGED <<cfg, directVars, initialized, writer, initPoisoned, flagFlips, storeVars,
                 hardVars, appVars, histVars>>

\* Line 140, INITIALIZED.write().unwrap(): blocks while any guard is held;
\* poisoned: panic.
AcquireWrite(t) ==
  /\ pc[t] = "l140"
  /\ writer = NoThread
  /\ readers = {}
  /\ IF initPoisoned
       THEN /\ pc' = [pc EXCEPT ![t] = "panicked"]
            /\ UNCHANGED writer
       ELSE /\ pc' = [pc EXCEPT ![t] = "l143"]
            /\ writer' = t
  /\ UNCHANGED <<cfg, directVars, initialized, readers, initPoisoned, flagFlips, storeVars,
                 hardVars, appVars, returned, histVars>>

\* CheckSecond that drops the write guard before it calls the Applier, so
\* that the lock is not held across the external writes.
CheckSecond_DropsGuard(t) ==
  /\ pc[t] = "l143"
  /\ IF initialized
       THEN /\ pc' = [pc EXCEPT ![t] = "l147"]
            /\ recheckHits' = recheckHits + 1
            /\ UNCHANGED <<applierStarted, writer>>
       ELSE /\ pc' = [pc EXCEPT ![t] = "l68"]
            /\ applierStarted' = applierStarted + 1
            /\ writer' = NoThread
            /\ UNCHANGED recheckHits
  /\ UNCHANGED <<cfg, directVars, initialized, readers, initPoisoned, flagFlips,
                 storeVars, hardVars, appVars, returned, applierCompleted>>

\* CheckSecond without the re-check: the Applier is entered whatever the flag.
CheckSecond_NoRecheck(t) ==
  /\ pc[t] = "l143"
  /\ pc' = [pc EXCEPT ![t] = "l68"]
  /\ applierStarted' = applierStarted + 1
  /\ UNCHANGED <<cfg, directVars, flagVars, storeVars, hardVars, appVars, returned,
                 applierCompleted, recheckHits>>

\* CheckSecond with lines 144 and 145 exchanged: the flag is written before
\* the Applier runs.
CheckSecond_FlagFirst(t) ==
  /\ pc[t] = "l143"
  /\ IF initialized
       THEN /\ pc' = [pc EXCEPT ![t] = "l147"]
            /\ recheckHits' = recheckHits + 1
            /\ UNCHANGED <<applierStarted, initialized, flagFlips>>
       ELSE /\ pc' = [pc EXCEPT ![t] = "l68"]
            /\ applierStarted' = applierStarted + 1
            /\ initialized' = TRUE
            /\ flagFlips' = flagFlips + 1
            /\ UNCHANGED recheckHits
  /\ UNCHANGED <<cfg, directVars, readers, writer, initPoisoned, storeVars, hardVars,
                 appVars, returned, applierCompleted>>

\* Line 143, `if !*initialized`: the second check, under the write guard;
\* flag false: init_compile_time_config() is entered (line 144).
CheckSecond(t) ==
  /\ pc[t] = "l143"
  /\ IF initialized
       THEN /\ pc' = [pc EXCEPT ![t] = "l147"]
            /\ recheckHits' = recheckHits + 1
            /\ UNCHANGED applierStarted
       ELSE /\ pc' = [pc EXCEPT ![t] = "l68"]
            /\ applierStarted' = applierStarted + 1
            /\ UNCHANGED recheckHits
  /\ UNCHANGED <<cfg, directVars, flagVars, storeVars, hardVars, appVars, returned,
                 applierCompleted>>

\* SetFlag that forgets the assignment of line 145.
SetFlag_Forgets(t) ==
  /\ pc[t] = "l145"
  /\ pc' = [pc EXCEPT ![t] = "l147"]
  /\ UNCHANGED <<cfg, directVars, flagVars, storeVars, hardVars, appVars, returned, histVars>>

\* Line 145, `*initialized = true`.
SetFlag(t) ==
  /\ pc[t] = "l145"
  /\ initialized' = TRUE
  /\ flagFlips' = IF initialized = TRUE THEN flagFlips ELSE flagFlips + 1
  /\ pc' = [pc EXCEPT ![t] = "l147"]
  /\ UNCHANGED <<cfg, directVars, readers, writer, initPoisoned, storeVars, hardVars,
                 appVars, returned, histVars>>

\* Line 147: the write guard goes out of scope and the function returns.
ReleaseWrite(t) ==
  /\ pc[t] = "l147"
  /\ writer' = NoThread
  /\ pc' = [pc EXCEPT ![t] = "idle"]
  /\ returned' = [returned EXCEPT ![t] = @ + 1]
  /\ UNCHANGED <<cfg, directVars, initialized, readers, initPoisoned, flagFlips, storeVars,
                 hardVars, appVars, histVars>>

(* ----------------------- the Applier, lines 62-131 -------------------- *)

\* Line 62: init_compile_time_config() is `pub`; a caller enters it without
\* going through the gate.
DirectCall(t) ==
  /\ pc[t] = "idle"
  /\ directCalls < MaxDirect
  /\ pc' = [pc EXCEPT ![t] = "l68"]
  /\ direct' = direct \cup {t}
  /\ directCalls' = directCalls + 1
  /\ applierStarted' = applierStarted + 1
  /\ UNCHANGED <<cfg, flagVars, storeVars, hardVars, appVars, returned,
                 applierCompleted, recheckHits>>

\* One call config::set(k, v): the store keeps v under k.
ConfigSet(k, v) ==
  /\ store' = (k :> v) @@ store
  /\ setLog' = Append(setLog, <<k, v>>)

\* Lines 68-70.
SetRendezvousServer(t) ==
  /\ pc[t] = "l68"
  /\ IF ~is_empty(cfg.rendezvous_server)
       THEN ConfigSet(OPTION_CUSTOM_RENDEZVOUS_SERVER, cfg.rendezvous_server)
       ELSE UNCHANGED storeVars
  /\ pc' = [pc EXCEPT ![t] = "l74"]
  /\ UNCHANGED <<cfg, directVars, flagVars, hardVars, appVars, returned, histVars>>

\* SetRelayServer without the is_empty() test.
SetRelayServer_Unconditional(t) ==
  /\ pc[t] = "l74"
  /\ ConfigSet(OPTION_RELAY_SERVER, cfg.relay_server)
  /\ pc' = [pc EXCEPT ![t] = "l80"]
  /\ UNCHANGED <<cfg, directVars, flagVars, hardVars, appVars, returned, histVars>>

\* Lines 74-76.
SetRelayServer(t) ==
  /\ pc[t] = "l74"
  /\ IF ~is_empty(cfg.relay_server)
       THEN ConfigSet(OPTION_RELAY_SERVER, cfg.relay_server)
       ELSE UNCHANGED storeVars
  /\ pc' = [pc EXCEPT ![t] = "l80"]
  /\ UNCHANGED <<cfg, directVars, flagVars, hardVars, appVars, returned, histVars>>

\* Lines 80-82.
SetApiServer(t) ==
  /\ pc[t] = "l80"
  /\ IF ~is_empty(cfg.api_server)
       THEN ConfigSet(OPTION_API_SERVER, cfg.api_server)
       ELSE UNCHANGED storeVars
  /\ pc' = [pc EXCEPT ![t] = "l86"]
  /\ UNCHANGED <<cfg, directVars, flagVars, hardVars, appVars, returned, histVars>>

\* SetKey that moves the string out of the configuration (mem::take) instead
\* of borrowing it.
SetKey_TakesField(t) ==
  /\ pc[t] = "l86"
  /\ IF ~is_empty(cfg.key)
       THEN ConfigSet(OPTION_KEY, cfg.key)
       ELSE UNCHANGED storeVars
  /\ cfg' = [cfg EXCEPT !.key = ""]
  /\ pc' = [pc EXCEPT ![t] = "l92"]
  /\ UNCHANGED <<directVars, flagVars, hardVars, appVars, returned, histVars>>

\* SetKey writing under the key of the statement above it (copy and paste).
SetKey_WrongKey(t) ==
  /\ pc[t] = "l86"
  /\ IF ~is_empty(cfg.key)
       THEN ConfigSet(OPTION_API_SERVER, cfg.key)
       ELSE UNCHANGED storeVars
  /\ pc' = [pc EXCEPT ![t] = "l92"]
  /\ UNCHANGED <<cfg, directVars, flagVars, hardVars, appVars, returned, histVars>>

\* Lines 86-88.
SetKey(t) ==
  /\ pc[t] = "l86"
  /\ IF ~is_empty(cfg.key)
       THEN ConfigSet(OPTION_KEY, cfg.key)
       ELSE UNCHANGED storeVars
  /\ pc' = [pc EXCEPT ![t] = "l92"]
  /\ UNCHANGED <<cfg, directVars, flagVars, hardVars, appVars, returned, histVars>>

\* Line 92.
SetAllowHideCm(t) ==
  /\ pc[t] = "l92"
  /\ ConfigSet(ALLOW_HIDE_CM, "Y")
  /\ pc' = [pc EXCEPT ![t] = "l96"]
  /\ UNCHANGED <<cfg, directVars, flagVars, hardVars, appVars, returned, histVars>>

\* Line 96.
SetAllowRemoteConfigModification(t) ==
  /\ pc[t] = "l96"
  /\ ConfigSet(OPTION_ALLOW_REMOTE_CONFIG_MODIFICATION, "Y")
  /\ pc' = [pc EXCEPT ![t] = "l100"]
  /\ UNCHANGED <<cfg, directVars, flagVars, hardVars, appVars, returned, histVars>>

\* SetRelayPass moved inside the `if !config.key.is_empty()` block.
SetRelayPass_Gated(t) ==
  /\ pc[t] = "l100"
  /\ IF ~is_empty(cfg.key)
       THEN ConfigSet(RELAY_PASS, "Mm118811")
       ELSE UNCHANGED storeVars
  /\ pc' = [pc EXCEPT ![t] = "l104"]
  /\ UNCHANGED <<cfg, directVars, flagVars, hardVars, appVars, returned, histVars>>

\* Line 100.
SetRelayPass(t) ==
  /\ pc[t] = "l100"
  /\ ConfigSet(RELAY_PASS, "Mm118811")
  /\ pc' = [pc EXCEPT ![t] = "l104"]
  /\ UNCHANGED <<cfg, directVars, flagVars, hardVars, appVars, returned, histVars>>

\* Line 104.
SetPermission(t) ==
  /\ pc[t] = "l104"
  /\ ConfigSet(OPTION_PERMISSION, "all")
  /\ pc' = [pc EXCEPT ![t] = "l108"]
  /\ UNCHANGED <<cfg, directVars, flagVars, hardVars, appVars, returned, histVars>>

\* The four statements of lines 108-126: where each starts, the key it
\* inserts, the value it inserts and the statement that follows it.
HardLines == {"l108", "l113", "l118", "l123"}

\* HardKey with the last insertion under the key of the one above it.
HardKey_CopyPaste(l) ==
  CASE l = "l108" -> OPTION_CUSTOM_RENDEZVOUS_SERVER
    [] l = "l113" -> OPTION_RELAY_SERVER
    [] l = "l118" -> OPTION_API_SERVER
    [] l = "l123" -> OPTION_API_SERVER

HardKey(l) ==
  CASE l = "l108" -> OPTION_CUSTOM_RENDEZVOUS_SERVER
    [] l = "l113" -> OPTION_RELAY_SERVER
    [] l = "l118" -> OPTION_API_SERVER
    [] l = "l123" -> OPTION_KEY

HardValue(l) ==
  CASE l = "l108" -> cfg.rendezvous_server
    [] l = "l113" -> cfg.relay_server
    [] l = "l118" -> cfg.api_server
    [] l = "l123" -> cfg.key

HardNext(l) ==
  CASE l = "l108" -> "l113"
    [] l = "l113" -> "l118"
    [] l = "l118" -> "l123"
    [] l = "l123" -> "l130"

Held(l) ==
  CASE l = "l108" -> "l108_held"
    [] l = "l113" -> "l113_held"
    [] l = "l118" -> "l118_held"
    [] l = "l123" -> "l123_held"
    [] l = "l130" -> "l130_held"

\* Unwind over a lock that does not poison: the guard is just released.
Unwind_NoPoison(t) ==
  /\ pc' = [pc EXCEPT ![t] = "panicked"]
  /\ writer' = IF writer = t THEN NoThread ELSE writer
  /\ UNCHANGED <<initialized, readers, flagFlips, initPoisoned>>

\* A panic inside the Applier unwinds through the gate: the write guard of
\* INITIALIZED (line 140) is dropped while panicking, which poisons the lock.
Unwind(t) ==
  /\ pc' = [pc EXCEPT ![t] = "panicked"]
  /\ writer' = IF writer = t THEN NoThread ELSE writer
  /\ initPoisoned' = IF writer = t THEN TRUE ELSE initPoisoned
  /\ UNCHANGED <<initialized, readers, flagFlips>>

\* config::HARD_SETTINGS.write().unwrap() of lines 108-110, 113-115,
\* 118-120, 123-125.
HardAcquire(t) ==
  /\ pc[t] \in HardLines
  /\ hardHolder = NoThread
  /\ IF hardPoisoned
       THEN /\ Unwind(t)
            /\ UNCHANGED hardHolder
       ELSE /\ pc' = [pc EXCEPT ![t] = Held(pc[t])]
            /\ hardHolder' = t
            /\ UNCHANGED flagVars
  /\ UNCHANGED <<cfg, directVars, storeVars, hard, hardPoisoned, appVars, returned, histVars>>

\* HardInsert through a guard bound to a variable: it is not dropped at the
\* end of the statement.
HardInsert_KeepsGuard(t) ==
  /\ \E l \in HardLines :
       /\ pc[t] = Held(l)
       /\ hard' = (HardKey(l) :> HardValue(l)) @@ hard
       /\ pc' = [pc EXCEPT ![t] = HardNext(l)]
  /\ UNCHANGED <<cfg, directVars, flagVars, storeVars, hardHolder, hardPoisoned,
                 appVars, returned, histVars>>

\* HardInsert gated on the field being non-empty, as the config::set calls are.
HardInsert_Gated(t) ==
  /\ \E l \in HardLines :
       /\ pc[t] = Held(l)
       /\ hard' = IF is_empty(HardValue(l)) THEN hard
                  ELSE (HardKey(l) :> HardValue(l)) @@ hard
       /\ pc' = [pc EXCEPT ![t] = HardNext(l)]
  /\ hardHolder' = NoThread
  /\ UNCHANGED <<cfg, directVars, flagVars, storeVars, hardPoisoned, appVars, returned, histVars>>

\* .insert(key.to_string(), value.clone()) of lines 111, 116, 121, 126; the
\* temporary guard is dropped at the end of the statement.
HardInsert(t) ==
  /\ \E l \in HardLines :
       /\ pc[t] = Held(l)
       /\ hard' = (HardKey(l) :> HardValue(l)) @@ hard
       /\ pc' = [pc EXCEPT ![t] = HardNext(l)]
  /\ hardHolder' = NoThread
  /\ UNCHANGED <<cfg, directVars, flagVars, storeVars, hardPoisoned, appVars, returned, histVars>>

\* Line 130, config::APP_NAME.write().unwrap().
AppAcquire(t) ==
  /\ pc[t] = "l130"
  /\ appHolder = NoThread
  /\ IF appPoisoned
       THEN /\ Unwind(t)
            /\ UNCHANGED appHolder
       ELSE /\ pc' = [pc EXCEPT ![t] = Held("l130")]
            /\ appHolder' = t
            /\ UNCHANGED flagVars
  /\ UNCHANGED <<cfg, directVars, storeVars, hardVars, appName, appPoisoned, returned, histVars>>

\* SetAppName that appends the suffix to the current name instead of
\* overwriting it with the constant.
SetAppName_Appends(t) ==
  /\ pc[t] = Held("l130")
  /\ appName' = IF appName = APP_NAME_DEFAULT THEN APP_NAME_CUSTOM
                ELSE "RustDesk Custom Custom"
  /\ appHolder' = NoThread
  /\ applierCompleted' = applierCompleted + 1
  /\ IF t \in direct
       THEN /\ pc' = [pc EXCEPT ![t] = "idle"]
            /\ direct' = direct \ {t}
       ELSE /\ pc' = [pc EXCEPT ![t] = "l145"]
            /\ UNCHANGED direct
  /\ UNCHANGED <<cfg, directCalls, flagVars, storeVars, hardVars, appPoisoned,
                 returned, applierStarted, recheckHits>>

\* SetAppName followed by a write of the flag inside the Applier itself.
SetAppName_MarksInitialized(t) ==
  /\ pc[t] = Held("l130")
  /\ appName' = APP_NAME_CUSTOM
  /\ appHolder' = NoThread
  /\ applierCompleted' = applierCompleted + 1
  /\ initialized' = TRUE
  /\ flagFlips' = IF initialized THEN flagFlips ELSE flagFlips + 1
  /\ IF t \in direct
       THEN /\ pc' = [pc EXCEPT ![t] = "idle"]
            /\ direct' = direct \ {t}
       ELSE /\ pc' = [pc EXCEPT ![t] = "l145"]
            /\ UNCHANGED direct
  /\ UNCHANGED <<cfg, directCalls, readers, writer, initPoisoned, storeVars,
                 hardVars, appPoisoned, returned, applierStarted, recheckHits>>

\* Line 130, `*guard = "RustDesk Custom"`; the guard is dropped and
\* init_compile_time_config() returns: to line 145 when it was called by the
\* gate, to its caller when it was called directly.
SetAppName(t) ==
  /\ pc[t] = Held("l130")
  /\ appName' = APP_NAME_CUSTOM
  /\ appHolder' = NoThread
  /\ applierCompleted' = applierCompleted + 1
  /\ IF t \in direct
       THEN /\ pc' = [pc EXCEPT ![t] = "idle"]
            /\ direct' = direct \ {t}
       ELSE /\ pc' = [pc EXCEPT ![t] = "l145"]
            /\ UNCHANGED direct
  /\ UNCHANGED <<cfg, directCalls, flagVars, storeVars, hardVars, appPoisoned,
                 returned, applierStarted, recheckHits>>

(* --------------------------- specification ---------------------------- *)

Next ==
  \E t \in Threads :
    \/ Call(t)
    \/ AcquireRead(t)
    \/ CheckFirst(t)
    \/ AcquireWrite(t)
    \/ CheckSecond(t)
    \/ SetRendezvousServer(t)
    \/ SetRelayServer(t)
    \/ SetApiServer(t)
    \/ SetKey(t)
    \/ SetAllowHideCm(t)
    \/ SetAllowRemoteConfigModification(t)
    \/ SetRelayPass(t)
    \/ SetPermission(t)
    \/ HardAcquire(t)
    \/ HardInsert(t)
    \/ AppAcquire(t)
    \/ SetAppName(t)
    \/ SetFlag(t)
    \/ ReleaseWrite(t)

\* The callers go through the gate only.
Spec == Init /\ [][Next]_vars

\* The steps of caller t that wait for the INITIALIZED lock, and its other
\* steps inside a call.
LockStep(t) == AcquireRead(t) \/ AcquireWrite(t)

BodyStep(t) ==
  \/ CheckFirst(t)
  \/ CheckSecond(t)
  \/ SetRendezvousServer(t)
  \/ SetRelayServer(t)
  \/ SetApiServer(t)
  \/ SetKey(t)
  \/ SetAllowHideCm(t)
  \/ SetAllowRemoteConfigModification(t)
  \/ SetRelayPass(t)
  \/ SetPermission(t)
  \/ HardAcquire(t)
  \/ HardInsert(t)
  \/ AppAcquire(t)
  \/ SetAppName(t)
  \/ SetFlag(t)
  \/ ReleaseWrite(t)

\* The program as built, with an Applier that does not fail: the constants
\* of lines 23-38 and no poisoned collaborator lock.
InitSound ==
  /\ Init
  /\ cfg = [rendezvous_server |-> CUSTOM_RENDEZVOUS_SERVER,
            relay_server |-> CUSTOM_RELAY_SERVER,
            api_server |-> CUSTOM_API_SERVER,
            key |-> CUSTOM_KEY]
  /\ ~hardPoisoned
  /\ ~appPoisoned

\* Threads run in parallel: a caller inside a call keeps running, and a
\* caller to which the lock stays available gets it.
FairSpec ==
  /\ InitSound
  /\ [][Next]_vars
  /\ \A t \in Threads : WF_vars(LockStep(t) \/ BodyStep(t))

\* No caller is inside the gate or the Applier.
Quiescent == \A t \in Threads : pc[t] \in {"idle", "panicked"}

\* Callers may also enter the Applier directly.  The direct calls are made in
\* sequence with everything else: one starts when no other call is in
\* progress and runs alone until it returns or panics.
NextDirect ==
  \/ Next /\ (direct = {} \/ \E t \in direct : pc'[t] /= pc[t])
  \/ Quiescent /\ \E t \in Threads : DirectCall(t)

\* The configurations the comments of lines 20-38 describe: the rendezvous
\* server and the key are required, the relay and API servers are optional.
\* No collaborator lock is poisoned, so every run of the Applier completes.
InitDocumented ==
  /\ Init
  /\ ~is_empty(cfg.rendezvous_server)
  /\ ~is_empty(cfg.key)
  /\ ~hardPoisoned
  /\ ~appPoisoned

SpecDirect == InitDocumented /\ [][NextDirect]_vars

PcValues ==
  {"idle", "l138", "l138_held", "l140", "l143", "l68", "l74", "l80", "l86",
   "l92", "l96", "l100", "l104", "l130", "l145", "l147", "panicked"}
    \cup HardLines \cup {Held(l) : l \in HardLines \cup {"l130"}}

TypeOK ==
  /\ cfg \in CompileTimeConfig
  /\ initialized \in BOOLEAN
  /\ readers \subseteq Threads
  /\ writer \in Threads \cup {NoThread}
  /\ initPoisoned \in BOOLEAN
  /\ DOMAIN store \subseteq ServerKeys \cup AuxKeys
  /\ Len(setLog) <= 8 * (MaxDirect + 1)
  /\ DOMAIN hard \subseteq ServerKeys
  /\ hardHolder \in Threads \cup {NoThread}
  /\ appHolder \in Threads \cup {NoThread}
  /\ appName \in {APP_NAME_DEFAULT, APP_NAME_CUSTOM}
  /\ \A t \in Threads : pc[t] \in PcValues /\ returned[t] \in 0..MaxCalls
  /\ direct \subseteq Threads
  /\ directCalls \in 0..MaxDirect

(* ------------------------------ claims -------------------------------- *)

\* The four server fields with the key each belongs to, in source order.
ServerFields ==
  << <<OPTION_CUSTOM_RENDEZVOUS_SERVER, cfg.rendezvous_server>>,
     <<OPTION_RELAY_SERVER, cfg.relay_server>>,
     <<OPTION_API_SERVER, cfg.api_server>>,
     <<OPTION_KEY, cfg.key>> >>

AuxSets ==
  << <<ALLOW_HIDE_CM, "Y">>,
     <<OPTION_ALLOW_REMOTE_CONFIG_MODIFICATION, "Y">>,
     <<RELAY_PASS, "Mm118811">>,
     <<OPTION_PERMISSION, "all">> >>

NonEmptyPair(p) == p[2] /= ""
IsServerPair(p) == p[1] \in ServerKeys

\* The config::set calls of one complete run of the Applier.
ExpectedSetCalls == SelectSeq(ServerFields, NonEmptyPair) \o AuxSets

ApplierLines ==
  {"l68", "l74", "l80", "l86", "l92", "l96", "l100", "l104", "l130"}
    \cup HardLines \cup {Held(l) : l \in HardLines \cup {"l130"}}

\* Every write of the Applier has been made, once, and no Applier is running.
ApplierWritesComplete ==
  /\ setLog = ExpectedSetCalls
  /\ DOMAIN hard = ServerKeys
  /\ \A i \in 1..4 : hard[ServerFields[i][1]] = ServerFields[i][2]
  /\ appName = APP_NAME_CUSTOM
  /\ \A t \in Threads : pc[t] \notin ApplierLines

SomeReturned == \E t \in Threads : returned[t] >= 1
AllReturned == \A t \in Threads : returned[t] >= 1

\* C1: exactly-once.  The Applier body is never entered twice, and once every
\* caller has returned from the gate it has been entered once and has
\* completed once.
C1_ExactlyOnce ==
  /\ applierStarted <= 1
  /\ AllReturned => (applierStarted = 1 /\ applierCompleted = 1)

\* All callers have returned, one of them after losing the race: it read the
\* flag false at line 138 and found it true at line 143.
C1_Witness ==
  /\ AllReturned
  /\ recheckHits >= 1
  /\ applierStarted = 1

\* C2: fully-applied postcondition.  Whenever a caller has returned from the
\* gate, every write of the Applier has been made.
C2_FullyApplied == SomeReturned => ApplierWritesComplete

\* Two different callers have returned although the Applier ran once: one of
\* them returned without having run it.
C2_Witness ==
  /\ \E t, u \in Threads : t /= u /\ returned[t] >= 1 /\ returned[u] >= 1
  /\ applierCompleted = 1
  /\ ApplierWritesComplete

\* C3: happens-before.  In every state where the flag is true the Applier has
\* returned and all its writes are made.
C3_HappensBefore ==
  initialized => (applierCompleted >= 1 /\ ApplierWritesComplete)

\* A reader holds the read guard and is about to observe the flag true.
C3_Witness ==
  /\ initialized
  /\ \E t \in Threads : pc[t] = "l138_held"

\* C4: idempotence.  Once a call of the gate has returned, no later step of
\* any call makes a config::set call or changes the store, HARD_SETTINGS,
\* APP_NAME or the flag.
C4_Idempotent ==
  [][SomeReturned => UNCHANGED <<store, setLog, hard, appName, initialized>>]_vars

\* A caller has completed a second call, which began after its first one
\* returned, and the config::set calls are those of one run of the Applier.
C4_Witness ==
  /\ \E t \in Threads : returned[t] = 2
  /\ setLog = ExpectedSetCalls
  /\ applierCompleted = 1

\* C5: InitState monotonicity.  The flag starts false, no step takes it from
\* true to false, and its value changes at most once.
C5_FlagMonotone ==
  /\ initialized = FALSE
  /\ [][(initialized => initialized') /\ flagFlips' <= 1]_vars

\* The flag is true, it changed once, and calls were made after the change.
C5_Witness ==
  /\ initialized
  /\ flagFlips = 1
  /\ \E t \in Threads : returned[t] = 2

AllNonEmpty ==
  /\ ~is_empty(cfg.rendezvous_server)
  /\ ~is_empty(cfg.relay_server)
  /\ ~is_empty(cfg.api_server)
  /\ ~is_empty(cfg.key)

\* C6: literal round-trip.  With the four fields non-empty, after a call of
\* the gate has returned the store holds each literal under its own key, and
\* the config::set calls on the four server keys are exactly these four.
C6_LiteralRoundTrip ==
  (AllNonEmpty /\ SomeReturned) =>
    /\ ServerKeys \subseteq DOMAIN store
    /\ store[OPTION_CUSTOM_RENDEZVOUS_SERVER] = CUSTOM_RENDEZVOUS_SERVER
    /\ store[OPTION_RELAY_SERVER] = CUSTOM_RELAY_SERVER
    /\ store[OPTION_API_SERVER] = CUSTOM_API_SERVER
    /\ store[OPTION_KEY] = CUSTOM_KEY
    /\ SelectSeq(setLog, IsServerPair) =
         << <<OPTION_CUSTOM_RENDEZVOUS_SERVER, CUSTOM_RENDEZVOUS_SERVER>>,
            <<OPTION_RELAY_SERVER, CUSTOM_RELAY_SERVER>>,
            <<OPTION_API_SERVER, CUSTOM_API_SERVER>>,
            <<OPTION_KEY, CUSTOM_KEY>> >>

\* The source's own constants, and the caller that ran the Applier has returned.
C6_Witness ==
  /\ AllNonEmpty
  /\ SomeReturned
  /\ Len(setLog) = 8

\* C7: hard-lock completeness.  After a call of the gate has returned,
\* HARD_SETTINGS has exactly the four server keys, each with the value of its
\* own field, however many calls were made by however many callers.
C7_HardLockComplete ==
  SomeReturned =>
    /\ DOMAIN hard = ServerKeys
    /\ hard[OPTION_CUSTOM_RENDEZVOUS_SERVER] = cfg.rendezvous_server
    /\ hard[OPTION_RELAY_SERVER] = cfg.relay_server
    /\ hard[OPTION_API_SERVER] = cfg.api_server
    /\ hard[OPTION_KEY] = cfg.key

\* Every caller has completed every one of its calls, with non-empty fields.
C7_Witness ==
  /\ \A t \in Threads : returned[t] = MaxCalls
  /\ AllNonEmpty
  /\ Cardinality(DOMAIN hard) = 4

\* The conditional writes of lines 68-88 are over: line 92 has been executed.
ServerWritesOver == ALLOW_HIDE_CM \in DOMAIN store

SetCallsOn(k) == {i \in 1..Len(setLog) : setLog[i][1] = k}

\* C8: empty-field skip.  For each server field: when it is empty there is no
\* config::set call on its key, when it is non-empty there is (once line 92 is
\* reached) exactly one, with the field's value, whatever the other fields
\* are; and no caller panics unless a collaborator lock is poisoned.
C8_EmptyFieldSkip ==
  /\ \A i \in 1..4 :
       LET k == ServerFields[i][1]
           v == ServerFields[i][2]
       IN  /\ is_empty(v) => SetCallsOn(k) = {}
           /\ (~is_empty(v) /\ ServerWritesOver) =>
                /\ Cardinality(SetCallsOn(k)) = 1
                /\ \A j \in SetCallsOn(k) : setLog[j][2] = v
  /\ (\E t \in Threads : pc[t] = "panicked") => (hardPoisoned \/ appPoisoned)

\* An empty field between two non-empty ones; the Applier has run to the end.
C8_Witness ==
  /\ is_empty(cfg.relay_server)
  /\ ~is_empty(cfg.rendezvous_server)
  /\ ~is_empty(cfg.api_server)
  /\ applierCompleted = 1
  /\ SetCallsOn(OPTION_RELAY_SERVER) = {}
  /\ SetCallsOn(OPTION_API_SERVER) /= {}

\* A caller is past the last insertion of line 126.
PastHardInserts ==
  \E t \in Threads : pc[t] \in {"l130", "l130_held", "l145", "l147"}

\* C9: unconditional hard-settings insertion.  Once the Applier is past line
\* 126 all four server keys are in HARD_SETTINGS, and the key of an empty
\* field is present with the empty string as its value.
C9_HardUnconditional ==
  (PastHardInserts \/ initialized) =>
    \A i \in 1..4 :
      /\ ServerFields[i][1] \in DOMAIN hard
      /\ is_empty(ServerFields[i][2]) => hard[ServerFields[i][1]] = ""

\* All four fields empty: no config::set on a server key, four keys locked.
C9_Witness ==
  /\ \A i \in 1..4 : is_empty(ServerFields[i][2])
  /\ PastHardInserts
  /\ DOMAIN hard = ServerKeys
  /\ DOMAIN store = AuxKeys

\* C10: fixed auxiliary values.  When the flag is true the four auxiliary
\* settings and the application name hold their literals, whatever the fields
\* of the configuration are.
C10_FixedAux ==
  initialized =>
    /\ AuxKeys \subseteq DOMAIN store
    /\ store[ALLOW_HIDE_CM] = "Y"
    /\ store[OPTION_ALLOW_REMOTE_CONFIG_MODIFICATION] = "Y"
    /\ store[RELAY_PASS] = "Mm118811"
    /\ store[OPTION_PERMISSION] = "all"
    /\ appName = "RustDesk Custom"

\* Initialized with the key empty and the rendezvous server set.
C10_Witness ==
  /\ initialized
  /\ is_empty(cfg.key)
  /\ ~is_empty(cfg.rendezvous_server)
  /\ RELAY_PASS \in DOMAIN store

\* The threads that take a step.
Moved(t) == pc'[t] /= pc[t]

\* C11: lock failure is fatal.  A caller that reaches INITIALIZED.read() or
\* INITIALIZED.write() while the lock is poisoned panics in that step: it
\* neither enters the Applier nor changes the flag, the store, HARD_SETTINGS
\* or APP_NAME; and a caller that has panicked never runs again.
C11_LockFailureFatal ==
  [][\A t \in Threads :
       /\ (initPoisoned /\ pc[t] \in {"l138", "l140"} /\ Moved(t)) =>
            /\ pc'[t] = "panicked"
            /\ UNCHANGED <<initialized, store, setLog, hard, appName,
                           applierStarted, returned>>
       /\ pc[t] = "panicked" => pc'[t] = "panicked"]_vars

\* The Applier panicked in one caller and two others panicked on the lock.
C11_Witness ==
  /\ initPoisoned
  /\ Cardinality({t \in Threads : pc[t] = "panicked"}) >= 3
  /\ applierStarted = 1

\* C12: collaborator call bound.  Whatever the fields of the configuration
\* and however many callers go through the gate, config::set is called at
\* most 9 times.  (The calls are the four of lines 68-88 and the four of
\* lines 92-104: the largest number reached is 8.)
C12_SetCallBound == Len(setLog) <= 9

\* Every caller has made all its calls of the gate, the four fields are
\* non-empty, and config::set was called 8 times.
C12_Witness ==
  /\ \A t \in Threads : returned[t] = MaxCalls /\ pc[t] = "idle"
  /\ AllNonEmpty
  /\ Len(setLog) = 8

\* C13: ConfigSpec immutability.  COMPILE_TIME_CONFIG holds, in each field,
\* the literal it was built from, and no step of the gate or of the Applier,
\* called through the gate or directly, changes any field.
C13_ConfigImmutable ==
  /\ cfg \in CompileTimeConfig
  /\ [][cfg' = cfg]_vars

\* The Applier has read the configuration in two complete runs, one of them
\* through the gate, and the fields are the literals of lines 23-38.
C13_Witness ==
  /\ applierCompleted >= 2
  /\ initialized
  /\ cfg = [rendezvous_server |-> CUSTOM_RENDEZVOUS_SERVER,
            relay_server |-> CUSTOM_RELAY_SERVER,
            api_server |-> CUSTOM_API_SERVER,
            key |-> CUSTOM_KEY]

\* C14: fast path.  With the flag true, a caller at line 138 takes the read
\* lock, and a caller holding the read guard drops it and returns; in neither
\* step is the write lock taken or the flag, the store, HARD_SETTINGS or
\* APP_NAME written.
C14_FastPath ==
  [][\A t \in Threads :
       (initialized /\ pc[t] \in {"l138", "l138_held"} /\ Moved(t)) =>
         /\ pc[t] = "l138" => (pc'[t] = "l138_held" /\ t \in readers')
         /\ pc[t] = "l138_held" =>
              /\ pc'[t] = "idle"
              /\ t \notin readers'
              /\ returned'[t] = returned[t] + 1
         /\ UNCHANGED <<writer, initialized, store, setLog, hard, appName,
                        applierStarted>>]_vars

\* Two callers hold the read lock together with the flag true, and a third
\* has already returned from its second call.
C14_Witness ==
  /\ initialized
  /\ Cardinality(readers) >= 2
  /\ \E t \in Threads : returned[t] = 2 /\ pc[t] = "idle"

CallersInApplier == {t \in Threads : pc[t] \in ApplierLines}

\* C15: the Applier runs inside the critical section.  A caller inside the
\* Applier holds the write guard of INITIALIZED and nobody holds a read
\* guard; at most one caller is inside the Applier; and every step that
\* writes the store, HARD_SETTINGS or APP_NAME is a step of the holder of the
\* write guard, who keeps it.
C15_ApplierInCriticalSection ==
  /\ [](\A t \in CallersInApplier : writer = t /\ readers = {})
  /\ [](Cardinality(CallersInApplier) <= 1)
  /\ [][<<store, setLog, hard, appName>>' /= <<store, setLog, hard, appName>> =>
          /\ writer \in CallersInApplier
          /\ Moved(writer)
          /\ writer' = writer]_vars

\* One caller is inside an insertion into HARD_SETTINGS under the write
\* guard while one waits for the read lock and one for the write lock.
C15_Witness ==
  \E t, u, w \in Threads :
    /\ pc[t] = "l108_held" /\ writer = t
    /\ pc[u] = "l138"
    /\ pc[w] = "l140"

CallersInCall == {t \in Threads : pc[t] /= "idle"}

\* C16: termination.  With a fair lock and an Applier that does not fail,
\* the gate never deadlocks (while a call is in progress some caller inside a
\* call can take a step) and every call returns.
C16_Terminates ==
  /\ [](CallersInCall /= {} =>
          \E t \in CallersInCall : ENABLED (LockStep(t) \/ BodyStep(t)))
  /\ \A t \in Threads : (pc[t] /= "idle") ~> (pc[t] = "idle")

\* Two callers have both read the flag false and both ask for the write
\* lock; neither holds a read guard.
C16_Witness ==
  /\ ~initialized
  /\ readers = {}
  /\ Cardinality({t \in Threads : pc[t] = "l140"}) >= 2

Panicked == \E t \in Threads : pc[t] = "panicked"

\* C17: failure of the Applier.  Once a caller has panicked (the first panic
\* is always one of the Applier, on a poisoned HARD_SETTINGS or APP_NAME):
\* INITIALIZED is poisoned, the flag is false and stays false, the Applier
\* was entered once and is not entered again, no call returns, every caller
\* reaching the lock panics, and the config::set calls and insertions made
\* before the panic stay as they are.
C17_ApplierFailure ==
  /\ [](Panicked =>
          /\ initPoisoned
          /\ ~initialized
          /\ applierStarted = 1
          /\ applierCompleted = 0
          /\ setLog = ExpectedSetCalls
          /\ hard = IF hardPoisoned THEN EmptyMap
                    ELSE [k \in ServerKeys |->
                           CASE k = OPTION_CUSTOM_RENDEZVOUS_SERVER -> cfg.rendezvous_server
                             [] k = OPTION_RELAY_SERVER -> cfg.relay_server
                             [] k = OPTION_API_SERVER -> cfg.api_server
                             [] k = OPTION_KEY -> cfg.key])
  /\ [][/\ Panicked' =>
             UNCHANGED <<store, setLog, hard, appName, initialized, returned,
                         applierStarted>>
        /\ Panicked =>
             \A t \in Threads :
               (Moved(t) /\ pc[t] \in {"l138", "l140"}) => pc'[t] = "panicked"]_vars

\* APP_NAME was poisoned: the Applier panicked at line 130 after its eight
\* config::set calls and four insertions, which are all still there, and a
\* later caller has panicked on the lock.
C17_Witness ==
  /\ appPoisoned
  /\ ~hardPoisoned
  /\ AllNonEmpty
  /\ Cardinality({t \in Threads : pc[t] = "panicked"}) >= 2
  /\ Len(setLog) = 8
  /\ DOMAIN hard = ServerKeys
  /\ appName = APP_NAME_DEFAULT

\* C18: gate bypass.  No step of a direct call of init_compile_time_config()
\* reads or changes INITIALIZED (flag, guards, poison) or counts as a call of
\* the gate; the gate itself enters the Applier at most once, and the flag is
\* true only if the gate entered it.  The direct entries come on top of that:
\* the Applier runs exactly once only when it is reached through the gate
\* alone.
C18_GateBypass ==
  /\ [][\A t \in Threads :
          (Moved(t) /\ (t \in direct \/ t \in direct')) =>
            UNCHANGED <<initialized, readers, writer, initPoisoned, flagFlips,
                        returned, recheckHits>>]_vars
  /\ [](applierStarted - directCalls <= 1)
  /\ [](initialized => applierStarted - directCalls = 1)
  /\ [](directCalls = 0 => applierStarted <= 1)

\* A direct call has run the Applier to the end and left the flag false; a
\* caller of the gate is now running the Applier a second time.
C18_Witness ==
  /\ ~initialized
  /\ directCalls = 1
  /\ applierCompleted = 1
  /\ applierStarted = 2
  /\ \E t \in Threads : pc[t] \in ApplierLines /\ writer = t

\* The store, HARD_SETTINGS and APP_NAME as one run of the Applier leaves
\* them.
StateAfterOneRun ==
  /\ DOMAIN store = {ExpectedSetCalls[i][1] : i \in 1..Len(ExpectedSetCalls)}
  /\ \A i \in 1..Len(ExpectedSetCalls) :
       store[ExpectedSetCalls[i][1]] = ExpectedSetCalls[i][2]
  /\ DOMAIN hard = ServerKeys
  /\ \A i \in 1..4 : hard[ServerFields[i][1]] = ServerFields[i][2]
  /\ appName = APP_NAME_CUSTOM

\* C19: Applier idempotence.  Once the Applier has run to its end, the store,
\* HARD_SETTINGS and APP_NAME are as one run leaves them, and no step of a
\* further run changes any of them: after two or more runs in sequence they
\* are as after one.
C19_ApplierIdempotent ==
  /\ [](applierCompleted >= 1 => StateAfterOneRun)
  /\ [][applierCompleted >= 1 => UNCHANGED <<store, hard, appName>>]_vars

\* Two complete runs in sequence, one field empty: twice the config::set
\* calls of one run.
C19_Witness ==
  /\ applierCompleted = 2
  /\ Quiescent
  /\ is_empty(cfg.relay_server)
  /\ ~is_empty(cfg.key)
  /\ Len(setLog) = 2 * Len(ExpectedSetCalls)
  /\ StateAfterOneRun

HardHeldLines == {Held(l) : l \in HardLines}

PartialHard == DOMAIN hard /= {} /\ DOMAIN hard /= ServerKeys

\* C20: lock nesting.  A caller holds the HARD_SETTINGS guard only inside one
\* of the four insertion statements and the APP_NAME guard only inside line
\* 130, each time under the write guard of INITIALIZED; the two are never
\* held together; every insertion adds one key and releases the guard; and
\* HARD_SETTINGS holds some but not all of the four keys only while the flag
\* is false.
C20_LockNesting ==
  /\ [](\A t \in Threads :
          /\ hardHolder = t <=> pc[t] \in HardHeldLines
          /\ appHolder = t <=> pc[t] = "l130_held"
          /\ (hardHolder = t \/ appHolder = t) => writer = t)
  /\ [](hardHolder = NoThread \/ appHolder = NoThread)
  /\ [](PartialHard => ~initialized)
  /\ [][hard' /= hard =>
          /\ hardHolder /= NoThread
          /\ hardHolder' = NoThread
          /\ Cardinality(DOMAIN hard') = Cardinality(DOMAIN hard) + 1]_vars

\* Between two insertions: HARD_SETTINGS has two of the four keys, its lock
\* is free, the flag is false, and another caller is about to read the flag.
C20_Witness ==
  /\ Cardinality(DOMAIN hard) = 2
  /\ hardHolder = NoThread
  /\ ~initialized
  /\ \E t, u \in Threads : pc[t] = "l118" /\ writer = t /\ pc[u] = "l138"

====
